---- MODULE Spec2Model ----
(***************************************************************************)
(* Model of submit_application.py: a one-shot script that builds a         *)
(* canonical JSON payload, signs it with HMAC-SHA256 and POSTs it once.    *)
(*                                                                         *)
(* Text (Python str) is a sequence of Unicode code points, bytes are a     *)
(* sequence of integers 0..255, so that str.encode('utf-8'), json.dumps,   *)
(* json.loads and hmac/sha256 are computed, not assumed.                   *)
(***************************************************************************)
EXTENDS Integers, Sequences, FiniteSets, TLC

(***************************************************************************)
(* Bit operations on 32-bit words.  A word is <<hi, lo>>, two 16-bit       *)
(* halves, every operation is reduced modulo 2^32.                         *)
(***************************************************************************)
RECURSIVE XorN(_, _, _)
XorN(a, b, n) ==
    IF n = 0 THEN 0 ELSE ((a + b) % 2) + 2 * XorN(a \div 2, b \div 2, n - 1)

RECURSIVE AndN(_, _, _)
AndN(a, b, n) ==
    IF n = 0 THEN 0 ELSE ((a % 2) * (b % 2)) + 2 * AndN(a \div 2, b \div 2, n - 1)

XorTab == [a \in 0..15 |-> [b \in 0..15 |-> XorN(a, b, 4)]]

AndTab == [a \in 0..15 |-> [b \in 0..15 |-> AndN(a, b, 4)]]

Xor16(a, b) ==
      XorTab[a % 16][b % 16]
    + 16 * XorTab[(a \div 16) % 16][(b \div 16) % 16]
    + 256 * XorTab[(a \div 256) % 16][(b \div 256) % 16]
    + 4096 * XorTab[a \div 4096][b \div 4096]

And16(a, b) ==
      AndTab[a % 16][b % 16]
    + 16 * AndTab[(a \div 16) % 16][(b \div 16) % 16]
    + 256 * AndTab[(a \div 256) % 16][(b \div 256) % 16]
    + 4096 * AndTab[a \div 4096][b \div 4096]

Xor8(a, b) == XorTab[a % 16][b % 16] + 16 * XorTab[a \div 16][b \div 16]

WXor(x, y) == <<Xor16(x[1], y[1]), Xor16(x[2], y[2])>>

WAnd(x, y) == <<And16(x[1], y[1]), And16(x[2], y[2])>>

WNot(x) == <<65535 - x[1], 65535 - x[2]>>

WAdd(x, y) ==
    <<(x[1] + y[1] + ((x[2] + y[2]) \div 65536)) % 65536, (x[2] + y[2]) % 65536>>

RotrSmall(x, n) ==
    IF n = 0 THEN x
    ELSE <<(x[1] \div (2 ^ n)) + (x[2] % (2 ^ n)) * (2 ^ (16 - n)),
           (x[2] \div (2 ^ n)) + (x[1] % (2 ^ n)) * (2 ^ (16 - n))>>

Rotr(x, n) ==
    IF n < 16 THEN RotrSmall(x, n) ELSE RotrSmall(<<x[2], x[1]>>, n - 16)

Shr(x, n) ==
    IF n < 16
    THEN <<x[1] \div (2 ^ n), (x[2] \div (2 ^ n)) + (x[1] % (2 ^ n)) * (2 ^ (16 - n))>>
    ELSE <<0, x[1] \div (2 ^ (n - 16))>>

WXor3(a, b, c) == WXor(WXor(a, b), c)

(***************************************************************************)
(* SHA-256 (FIPS 180-4), as hashlib.sha256 computes it.                    *)
(***************************************************************************)
BigSigma0(x) == WXor3(Rotr(x, 2), Rotr(x, 13), Rotr(x, 22))

BigSigma1(x) == WXor3(Rotr(x, 6), Rotr(x, 11), Rotr(x, 25))

SmallSigma0(x) == WXor3(Rotr(x, 7), Rotr(x, 18), Shr(x, 3))

SmallSigma1(x) == WXor3(Rotr(x, 17), Rotr(x, 19), Shr(x, 10))

Ch(e, f, g) == WXor(WAnd(e, f), WAnd(WNot(e), g))

Maj(a, b, c) == WXor3(WAnd(a, b), WAnd(a, c), WAnd(b, c))

SHA256_K == <<
  <<17034, 12184>>, <<28983, 17553>>, <<46528, 64463>>, <<59829, 56229>>,
  <<14678, 49755>>, <<23025, 4593>>, <<37439, 33444>>, <<43804, 24277>>,
  <<55303, 43672>>, <<4739, 23297>>, <<9265, 34238>>, <<21772, 32195>>,
  <<29374, 23924>>, <<32990, 45566>>, <<39900, 1703>>, <<49563, 61812>>,
  <<58523, 27073>>, <<61374, 18310>>, <<4033, 40390>>, <<9228, 41420>>,
  <<11753, 11375>>, <<19060, 33962>>, <<23728, 43484>>, <<30457, 35034>>,
  <<38974, 20818>>, <<43057, 50797>>, <<45059, 10184>>, <<48985, 32711>>,
  <<50912, 3059>>, <<54695, 37191>>, <<1738, 25425>>, <<5161, 10599>>,
  <<10167, 2693>>, <<11803, 8504>>, <<19756, 28156>>, <<21304, 3347>>,
  <<25866, 29524>>, <<30314, 2747>>, <<33218, 51502>>, <<37490, 11397>>,
  <<41663, 59553>>, <<43034, 26187>>, <<49739, 35696>>, <<51052, 20899>>,
  <<53650, 59417>>, <<54937, 1572>>, <<62478, 13701>>, <<4202, 41072>>,
  <<6564, 49430>>, <<7735, 27656>>, <<10056, 30540>>, <<13488, 48309>>,
  <<14620, 3251>>, <<20184, 43594>>, <<23452, 51791>>, <<26670, 28659>>,
  <<29839, 33518>>, <<30885, 25455>>, <<33992, 30740>>, <<36039, 520>>,
  <<37054, 65530>>, <<42064, 27883>>, <<48889, 41975>>, <<50801, 30962>> >>

SHA256_H0 == <<
  <<27145, 58983>>, <<47975, 44677>>, <<15470, 62322>>, <<42319, 62778>>,
  <<20750, 21119>>, <<39685, 26764>>, <<8067, 55723>>, <<23520, 52505>> >>

\* the 64-bit big-endian bit length that ends the padding (lengths < 2^28 bytes)
LengthBytes(n) ==
    <<0, 0, 0, 0, ((n * 8) \div 16777216) % 256, ((n * 8) \div 65536) % 256,
      ((n * 8) \div 256) % 256, (n * 8) % 256>>

Zeros(n) == [i \in 1..n |-> 0]

Sha256Pad(msg) ==
    msg \o <<128>> \o Zeros((119 - (Len(msg) % 64)) % 64) \o LengthBytes(Len(msg))

\* the 16 big-endian words of block number b (from 0) of the padded message
WordAt(m, o) == <<m[o + 1] * 256 + m[o + 2], m[o + 3] * 256 + m[o + 4]>>

BlockWords(m, b) == [i \in 1..16 |-> WordAt(m, 64 * b + 4 * (i - 1))]

RECURSIVE Schedule(_)
ScheduleWord(w, t) ==
    WAdd(WAdd(SmallSigma1(w[t - 2]), w[t - 7]),
         WAdd(SmallSigma0(w[t - 15]), w[t - 16]))

Schedule(w) ==
    IF Len(w) = 64 THEN w ELSE Schedule(Append(w, ScheduleWord(w, Len(w) + 1)))

Temp1(s, k, w) ==
    WAdd(WAdd(WAdd(s[8], BigSigma1(s[5])), WAdd(Ch(s[5], s[6], s[7]), k)), w)

Temp2(s) == WAdd(BigSigma0(s[1]), Maj(s[1], s[2], s[3]))

RoundOut(s, t1, t2) ==
    <<WAdd(t1, t2), s[1], s[2], s[3], WAdd(s[4], t1), s[5], s[6], s[7]>>

Round(s, k, w) == RoundOut(s, Temp1(s, k, w), Temp2(s))

RECURSIVE Rounds(_, _, _)
Rounds(s, w, t) ==
    IF t > 64 \/ Len(s) # 8 THEN s
    ELSE Rounds(Round(s, SHA256_K[t], w[t]), w, t + 1)

AddState(h, s) ==
    <<WAdd(h[1], s[1]), WAdd(h[2], s[2]), WAdd(h[3], s[3]), WAdd(h[4], s[4]),
      WAdd(h[5], s[5]), WAdd(h[6], s[6]), WAdd(h[7], s[7]), WAdd(h[8], s[8])>>

Compress(h, block) == AddState(h, Rounds(h, Schedule(block), 1))

RECURSIVE Blocks(_, _, _)
Blocks(h, m, b) ==
    IF 64 * b >= Len(m) \/ Len(h) # 8 THEN h
    ELSE Blocks(Compress(h, BlockWords(m, b)), m, b + 1)

WordBytes(x) == <<x[1] \div 256, x[1] % 256, x[2] \div 256, x[2] % 256>>

\* hashlib.sha256(msg).digest(): 32 bytes
StateBytes(h) ==
    WordBytes(h[1]) \o WordBytes(h[2]) \o WordBytes(h[3]) \o WordBytes(h[4])
    \o WordBytes(h[5]) \o WordBytes(h[6]) \o WordBytes(h[7]) \o WordBytes(h[8])

sha256(msg) == StateBytes(Blocks(SHA256_H0, Sha256Pad(msg), 0))

(***************************************************************************)
(* HMAC (RFC 2104) with SHA-256, as hmac.new(key, msg, sha256) computes    *)
(* it: a key longer than the 64-byte block is hashed, a shorter one is     *)
(* padded with zero bytes.                                                 *)
(***************************************************************************)
BlockSize == 64

ZeroPad(k) == k \o Zeros(BlockSize - Len(k))

HmacKeyBlock(key) == ZeroPad(IF Len(key) > BlockSize THEN sha256(key) ELSE key)

\* the key block with every byte xor-ed with pad
XorPad(kb, pad) == [i \in 1..BlockSize |-> Xor8(kb[i], pad)]

HmacWithBlock(kb, msg) ==
    sha256(XorPad(kb, 92) \o sha256(XorPad(kb, 54) \o msg))

hmac_digest(key, msg) == HmacWithBlock(HmacKeyBlock(key), msg)

\* bytes.hex(): two lowercase hexadecimal digits per byte, as code points
HexDigit(d) == IF d < 10 THEN 48 + d ELSE 87 + d

RECURSIVE hexdigest(_)
hexdigest(bytes) ==
    IF bytes = <<>> THEN <<>>
    ELSE <<HexDigit(Head(bytes) \div 16), HexDigit(Head(bytes) % 16)>>
         \o hexdigest(Tail(bytes))

(***************************************************************************)
(* Python text and bytes.  A str is a sequence of code points (Unicode     *)
(* scalar values, no surrogates), bytes a sequence of 0..255.              *)
(***************************************************************************)
\* the concatenation of pieces[lo..hi], by halves (shallow recursion)
RECURSIVE Concat(_, _, _)
Concat(pieces, lo, hi) ==
    IF lo > hi THEN <<>>
    ELSE IF lo = hi THEN pieces[lo]
    ELSE Concat(pieces, lo, (lo + hi) \div 2)
         \o Concat(pieces, ((lo + hi) \div 2) + 1, hi)

Flatten(pieces) == Concat(pieces, 1, Len(pieces))

EncodeCodePoint(c) ==
    IF c < 128 THEN <<c>>
    ELSE IF c < 2048 THEN <<192 + (c \div 64), 128 + (c % 64)>>
    ELSE IF c < 65536
         THEN <<224 + (c \div 4096), 128 + ((c \div 64) % 64), 128 + (c % 64)>>
    ELSE <<240 + (c \div 262144), 128 + ((c \div 4096) % 64),
           128 + ((c \div 64) % 64), 128 + (c % 64)>>

\* str.encode('utf-8')
encode_utf8(s) == Flatten([i \in 1..Len(s) |-> EncodeCodePoint(s[i])])

IsCont(b, i) == i <= Len(b) /\ b[i] >= 128 /\ b[i] <= 191

\* the length of the well-formed UTF-8 sequence that starts at b[i], 0 if none
\* (strict decoding: no overlong forms, no surrogates, nothing above U+10FFFF)
SeqLenFor(b, i, c) ==
    IF c < 128 THEN 1
    ELSE IF c >= 194 /\ c <= 223 /\ IsCont(b, i + 1) THEN 2
    ELSE IF c >= 224 /\ c <= 239 /\ IsCont(b, i + 1) /\ IsCont(b, i + 2)
            /\ (c = 224 => b[i + 1] >= 160) /\ (c = 237 => b[i + 1] <= 159)
         THEN 3
    ELSE IF c >= 240 /\ c <= 244 /\ IsCont(b, i + 1) /\ IsCont(b, i + 2)
            /\ IsCont(b, i + 3)
            /\ (c = 240 => b[i + 1] >= 144) /\ (c = 244 => b[i + 1] <= 143)
         THEN 4
    ELSE 0

Utf8SeqLen(b, i) == SeqLenFor(b, i, b[i])

DecodeAt(b, i, n) ==
    IF n = 1 THEN b[i]
    ELSE IF n = 2 THEN (b[i] - 192) * 64 + (b[i + 1] - 128)
    ELSE IF n = 3 THEN (b[i] - 224) * 4096 + (b[i + 1] - 128) * 64 + (b[i + 2] - 128)
    ELSE (b[i] - 240) * 262144 + (b[i + 1] - 128) * 4096
         + (b[i + 2] - 128) * 64 + (b[i + 3] - 128)

\* a byte that is no continuation byte starts a character
IsLead(b, i) == b[i] < 128 \/ b[i] > 191

\* the first index after i that starts a character (Len(b) + 1 at the end)
NextStart(b, i) ==
    CHOOSE j \in (i + 1)..(Len(b) + 1) :
        /\ j = Len(b) + 1 \/ IsLead(b, j)
        /\ \A k \in (i + 1)..(j - 1) : ~IsLead(b, k)

\* every character start begins a well-formed sequence that reaches exactly
\* the next start
WellFormedUtf8(b) ==
    /\ Len(b) > 0 => IsLead(b, 1)
    /\ \A i \in 1..Len(b) :
           IsLead(b, i) => /\ Utf8SeqLen(b, i) > 0
                           /\ NextStart(b, i) = i + Utf8SeqLen(b, i)

DecodePiece(b, i) ==
    IF IsLead(b, i) THEN <<DecodeAt(b, i, Utf8SeqLen(b, i))>> ELSE <<>>

\* bytes.decode('utf-8'): ok = FALSE stands for UnicodeDecodeError
decode_utf8(b) ==
    IF WellFormedUtf8(b)
    THEN [ok |-> TRUE, text |-> Flatten([i \in 1..Len(b) |-> DecodePiece(b, i)])]
    ELSE [ok |-> FALSE, text |-> <<>>]

(***************************************************************************)
(* Python values, as json.loads builds them: t is the Python type, and the *)
(* field of that type holds the value: s the text of a str, n an int, b a  *)
(* bool, items the elements of a list, pairs the <<key, value>> items of a *)
(* dict in insertion order.                                                *)
(***************************************************************************)
PyValue(t, s, n, b, items, pairs) ==
    [t |-> t, s |-> s, n |-> n, b |-> b, items |-> items, pairs |-> pairs]

PyNone == PyValue("None", <<>>, 0, FALSE, <<>>, <<>>)

PyStr(s) == PyValue("str", s, 0, FALSE, <<>>, <<>>)

PyInt(n) == PyValue("int", <<>>, n, FALSE, <<>>, <<>>)

PyBool(b) == PyValue("bool", <<>>, 0, b, <<>>, <<>>)

PyList(xs) == PyValue("list", <<>>, 0, FALSE, xs, <<>>)

PyDict(pairs) == PyValue("dict", <<>>, 0, FALSE, <<>>, pairs)

\* d[key] = val: an existing key keeps its place and takes the new value
dict_set(items, key, val) ==
    IF \E i \in 1..Len(items) : items[i][1] = key
    THEN [i \in 1..Len(items) |->
             IF items[i][1] = key THEN <<key, val>> ELSE items[i]]
    ELSE Append(items, <<key, val>>)

dict_has(d, key) == \E i \in 1..Len(d.pairs) : d.pairs[i][1] = key

dict_item(d, key) ==
    d.pairs[CHOOSE i \in 1..Len(d.pairs) : d.pairs[i][1] = key][2]

\* dict.get(key): None when the key is absent
dict_get(d, key) == IF dict_has(d, key) THEN dict_item(d, key) ELSE PyNone

\* bool(x), Python's truth value
Truthy(x) ==
    CASE x.t = "None" -> FALSE
      [] x.t = "bool" -> x.b
      [] x.t = "int"  -> x.n # 0
      [] x.t = "str"  -> Len(x.s) > 0
      [] x.t = "list" -> Len(x.items) > 0
      [] x.t = "dict" -> Len(x.pairs) > 0

RECURSIVE Digits(_)
Digits(n) == IF n < 10 THEN <<48 + n>> ELSE Append(Digits(n \div 10), 48 + (n % 10))

\* str(x), as an f-string formats a str, an int, a bool or None
format_value(x) ==
    CASE x.t = "str"  -> x.s
      [] x.t = "int"  -> IF x.n < 0 THEN <<45>> \o Digits(0 - x.n) ELSE Digits(x.n)
      [] x.t = "bool" -> IF x.b THEN <<84, 114, 117, 101>> ELSE <<70, 97, 108, 115, 101>>
      [] x.t = "None" -> <<78, 111, 110, 101>>

(***************************************************************************)
(* json.dumps(obj, separators=(item_sep, key_sep), ensure_ascii=False).    *)
(***************************************************************************)
Hex4(c) ==
    <<HexDigit(c \div 4096), HexDigit((c \div 256) % 16),
      HexDigit((c \div 16) % 16), HexDigit(c % 16)>>

\* json.encoder.py_encode_basestring: what one character is written as
EscapeChar(c) ==
    CASE c = 34 -> <<92, 34>>
      [] c = 92 -> <<92, 92>>
      [] c = 8  -> <<92, 98>>
      [] c = 12 -> <<92, 102>>
      [] c = 10 -> <<92, 110>>
      [] c = 13 -> <<92, 114>>
      [] c = 9  -> <<92, 116>>
      [] c < 32 /\ c \notin {8, 9, 10, 12, 13} -> <<92, 117>> \o Hex4(c)
      [] OTHER  -> <<c>>

encode_basestring(s) ==
    <<34>> \o Flatten([i \in 1..Len(s) |-> EscapeChar(s[i])]) \o <<34>>

RECURSIVE json_encode(_, _, _)
json_encode(x, item_sep, key_sep) ==
    CASE x.t = "str"  -> encode_basestring(x.s)
      [] x.t = "int"  -> IF x.n < 0 THEN <<45>> \o Digits(0 - x.n) ELSE Digits(x.n)
      [] x.t = "bool" -> IF x.b THEN <<116, 114, 117, 101>> ELSE <<102, 97, 108, 115, 101>>
      [] x.t = "None" -> <<110, 117, 108, 108>>
      [] x.t = "list" ->
            <<91>> \o Flatten([i \in 1..Len(x.items) |->
                        (IF i > 1 THEN item_sep ELSE <<>>)
                        \o json_encode(x.items[i], item_sep, key_sep)]) \o <<93>>
      [] x.t = "dict" ->
            <<123>> \o Flatten([i \in 1..Len(x.pairs) |->
                        (IF i > 1 THEN item_sep ELSE <<>>)
                        \o encode_basestring(x.pairs[i][1]) \o key_sep
                        \o json_encode(x.pairs[i][2], item_sep, key_sep)]) \o <<125>>

json_dumps(x, item_sep, key_sep) == json_encode(x, item_sep, key_sep)

(***************************************************************************)
(* json.loads(text), for JSON without fractions, exponents, NaN/Infinity   *)
(* and surrogate escapes.  A parse result is [ok, v, i]: the value and the *)
(* index after it; ok = FALSE stands for json.JSONDecodeError.             *)
(***************************************************************************)
JsonWs == {32, 9, 10, 13}

ParseFail == [ok |-> FALSE, v |-> PyNone, i |-> 0]

ParseOk(val, next) == [ok |-> TRUE, v |-> val, i |-> next]

\* the first index from i on that holds no whitespace (Len(s) + 1 at the end)
SkipWs(s, i) ==
    CHOOSE j \in i..(Len(s) + 1) :
        /\ j = Len(s) + 1 \/ s[j] \notin JsonWs
        /\ \A k \in i..(j - 1) : s[k] \in JsonWs

\* the least element of a non-empty set of integers
Min(S) == CHOOSE k \in S : \A k2 \in S : k <= k2

\* the number of backslashes that end right before index k, none before lo
BackslashRun(s, lo, k) ==
    CHOOSE r \in 0..(k - lo) :
        /\ \A q \in (k - r)..(k - 1) : s[q] = 92
        /\ r = k - lo \/ s[k - r - 1] # 92

\* s[k] follows an escaping backslash (the string's text starts at lo)
Escaped(s, lo, k) == BackslashRun(s, lo, k) % 2 = 1

\* the unescaped quotes from lo on: the first one closes the string
Closers(s, lo) == {k \in lo..Len(s) : s[k] = 34 /\ ~Escaped(s, lo, k)}

IsHexDigit(c) == (c >= 48 /\ c <= 57) \/ (c >= 97 /\ c <= 102) \/ (c >= 65 /\ c <= 70)

HexVal(c) == IF c <= 57 THEN c - 48 ELSE IF c >= 97 THEN c - 87 ELSE c - 55

\* the character after an escaping backslash, in the text s[lo .. e-1]
IsEscChar(s, lo, e, k) == k > lo /\ k < e /\ Escaped(s, lo, k)

IsEscStart(s, lo, k) == s[k] = 92 /\ ~Escaped(s, lo, k)

\* one of the four hexadecimal digits of a \uXXXX escape
InUnicode(s, lo, e, k) ==
    \E d \in 1..4 : IsEscChar(s, lo, e, k - d) /\ s[k - d] = 117

EscOk(s, e, k) ==
    \/ s[k] \in {34, 92, 47, 98, 102, 110, 114, 116}
    \/ /\ s[k] = 117
       /\ k + 4 < e
       /\ \A d \in 1..4 : IsHexDigit(s[k + d])
       \* a surrogate escape is outside this model
       /\ ~(s[k + 1] \in {100, 68} /\ HexVal(s[k + 2]) >= 8)

Unescape(s, k) ==
    CASE s[k] = 98  -> 8
      [] s[k] = 102 -> 12
      [] s[k] = 110 -> 10
      [] s[k] = 114 -> 13
      [] s[k] = 116 -> 9
      [] s[k] = 117 -> HexVal(s[k + 1]) * 4096 + HexVal(s[k + 2]) * 256
                       + HexVal(s[k + 3]) * 16 + HexVal(s[k + 4])
      [] OTHER      -> s[k]

\* no raw control character, no invalid escape
StringGood(s, lo, e) ==
    \A k \in lo..(e - 1) :
        /\ s[k] >= 32
        /\ IsEscChar(s, lo, e, k) => EscOk(s, e, k)

\* what s[k] contributes to the string's value
Piece(s, lo, e, k) ==
    IF IsEscChar(s, lo, e, k) THEN <<Unescape(s, k)>>
    ELSE IF IsEscStart(s, lo, k) \/ InUnicode(s, lo, e, k) THEN <<>>
    ELSE <<s[k]>>

\* the string whose text is s[lo .. e-1], s[e] being the closing quote
StringBetween(s, lo, e) ==
    IF StringGood(s, lo, e)
    THEN ParseOk(PyStr(Flatten([n \in 1..(e - lo) |-> Piece(s, lo, e, lo + n - 1)])),
                 e + 1)
    ELSE ParseFail

StringFrom(s, lo, closers) ==
    IF closers = {} THEN ParseFail ELSE StringBetween(s, lo, Min(closers))

\* s[q] is the opening quote
ParseString(s, q) == StringFrom(s, q + 1, Closers(s, q + 1))

IsDigit(c) == c >= 48 /\ c <= 57

RECURSIVE DigitsValue(_, _, _)
DigitsValue(s, lo, hi) ==
    IF lo > hi THEN 0 ELSE DigitsValue(s, lo, hi - 1) * 10 + (s[hi] - 48)

\* the first index from d0 on that holds no digit
DigitsEnd(s, d0) ==
    CHOOSE j \in d0..(Len(s) + 1) :
        /\ j = Len(s) + 1 \/ ~IsDigit(s[j])
        /\ \A k \in d0..(j - 1) : IsDigit(s[k])

\* the integer with sign neg and digits s[d0 .. last-1]
IntBetween(s, neg, d0, last) ==
    IF last <= Len(s) /\ s[last] \in {46, 101, 69} THEN ParseFail
    ELSE ParseOk(PyInt(IF neg THEN 0 - DigitsValue(s, d0, last - 1)
                       ELSE DigitsValue(s, d0, last - 1)), last)

\* after a leading 0 the number ends (json's NUMBER_RE)
IntDigits(s, neg, d0, dEnd) ==
    IF dEnd = d0 THEN ParseFail
    ELSE IntBetween(s, neg, d0, IF s[d0] = 48 THEN d0 + 1 ELSE dEnd)

IntFrom(s, neg, d0) == IntDigits(s, neg, d0, DigitsEnd(s, d0))

\* an integer that starts at s[i]: -? (0 | [1-9][0-9]*)
ParseInt(s, i) == IntFrom(s, s[i] = 45, IF s[i] = 45 THEN i + 1 ELSE i)

StartsWith(s, i, lit) ==
    /\ i + Len(lit) - 1 <= Len(s)
    /\ \A k \in 1..Len(lit) : s[i + k - 1] = lit[k]

RECURSIVE ParseValue(_, _), ParseMembers(_, _, _), ParseElements(_, _, _)
RECURSIVE ObjectFrom(_, _), ArrayFrom(_, _)
RECURSIVE MemberColon(_, _, _), MemberValue(_, _, _, _), MemberEnd(_, _, _, _)
RECURSIVE ElementEnd(_, _, _), ElementNext(_, _, _)

\* a value that starts at s[i] (i is past any whitespace)
ParseValue(s, i) ==
    IF i > Len(s) THEN ParseFail
    ELSE CASE s[i] = 34  -> ParseString(s, i)
           [] s[i] = 123 -> ObjectFrom(s, SkipWs(s, i + 1))
           [] s[i] = 91  -> ArrayFrom(s, SkipWs(s, i + 1))
           [] s[i] = 116 -> IF StartsWith(s, i, <<116, 114, 117, 101>>)
                            THEN ParseOk(PyBool(TRUE), i + 4) ELSE ParseFail
           [] s[i] = 102 -> IF StartsWith(s, i, <<102, 97, 108, 115, 101>>)
                            THEN ParseOk(PyBool(FALSE), i + 5) ELSE ParseFail
           [] s[i] = 110 -> IF StartsWith(s, i, <<110, 117, 108, 108>>)
                            THEN ParseOk(PyNone, i + 4) ELSE ParseFail
           [] s[i] = 45 \/ IsDigit(s[i]) -> ParseInt(s, i)
           [] OTHER -> ParseFail

\* after { and whitespace: } or the first member
ObjectFrom(s, j) ==
    IF j <= Len(s) /\ s[j] = 125 THEN ParseOk(PyDict(<<>>), j + 1)
    ELSE ParseMembers(s, j, <<>>)

\* after [ and whitespace: ] or the first element
ArrayFrom(s, j) ==
    IF j <= Len(s) /\ s[j] = 93 THEN ParseOk(PyList(<<>>), j + 1)
    ELSE ParseElements(s, j, <<>>)

\* "key" : value, then , or }
ParseMembers(s, i, items) ==
    IF i > Len(s) \/ s[i] # 34 THEN ParseFail
    ELSE MemberColon(s, items, ParseString(s, i))

MemberColon(s, items, key) ==
    IF ~key.ok THEN ParseFail ELSE MemberValue(s, items, key.v.s, SkipWs(s, key.i))

MemberValue(s, items, key, c) ==
    IF c > Len(s) \/ s[c] # 58 THEN ParseFail
    ELSE MemberEnd(s, items, key, ParseValue(s, SkipWs(s, c + 1)))

MemberEnd(s, items, key, val) ==
    IF ~val.ok THEN ParseFail
    ELSE ElementNext(s, PyDict(dict_set(items, key, val.v)), SkipWs(s, val.i))

\* value, then , or ]
ParseElements(s, i, xs) == ElementEnd(s, xs, ParseValue(s, i))

ElementEnd(s, xs, val) ==
    IF ~val.ok THEN ParseFail
    ELSE ElementNext(s, PyList(Append(xs, val.v)), SkipWs(s, val.i))

\* after a member or an element: the closing bracket, or a comma and more
ElementNext(s, sofar, n) ==
    IF n > Len(s) THEN ParseFail
    ELSE IF s[n] = (IF sofar.t = "dict" THEN 125 ELSE 93) THEN ParseOk(sofar, n + 1)
    ELSE IF s[n] # 44 THEN ParseFail
    ELSE IF sofar.t = "dict" THEN ParseMembers(s, SkipWs(s, n + 1), sofar.pairs)
    ELSE ParseElements(s, SkipWs(s, n + 1), sofar.items)

\* one value was parsed: only whitespace may follow
WholeText(s, r) == IF r.ok /\ SkipWs(s, r.i) = Len(s) + 1 THEN r ELSE ParseFail

\* json.loads(s): one value, whitespace around it, nothing else
json_loads(s) == WholeText(s, ParseValue(s, SkipWs(s, 1)))

(***************************************************************************)
(* datetime.now(timezone.utc).isoformat(timespec='milliseconds')           *)
(*         .replace('+00:00', 'Z')                                         *)
(* A datetime is [year, month, day, hour, minute, second, microsecond].    *)
(***************************************************************************)
\* n in decimal, zero-padded to width w
RECURSIVE Pad(_, _)
Pad(n, w) == IF w = 0 THEN <<>> ELSE Append(Pad(n \div 10, w - 1), 48 + (n % 10))

\* the UTC offset of an aware datetime in timezone.utc: '+00:00'
UtcOffset == <<43, 48, 48, 58, 48, 48>>

isoformat_ms(dt) ==
    Pad(dt.year, 4) \o <<45>> \o Pad(dt.month, 2) \o <<45>> \o Pad(dt.day, 2)
    \o <<84>> \o Pad(dt.hour, 2) \o <<58>> \o Pad(dt.minute, 2) \o <<58>>
    \o Pad(dt.second, 2) \o <<46>> \o Pad(dt.microsecond \div 1000, 3)
    \o UtcOffset

\* str.replace(old, new): every occurrence, left to right
\* where old occurs in s
Occurrences(s, old) == {j \in 1..(Len(s) - Len(old) + 1) : StartsWith(s, j, old)}

RECURSIVE str_replace(_, _, _), ReplaceAt(_, _, _, _)
str_replace(s, old, new) ==
    IF Occurrences(s, old) = {} THEN s
    ELSE ReplaceAt(s, old, new, Min(Occurrences(s, old)))

ReplaceAt(s, old, new, j) ==
    SubSeq(s, 1, j - 1) \o new
    \o str_replace(SubSeq(s, j + Len(old), Len(s)), old, new)

make_timestamp(dt) == str_replace(isoformat_ms(dt), UtcOffset, <<90>>)

(***************************************************************************)
(* create_payload                                                          *)
(***************************************************************************)
\* "action_run_link"
K_action_run_link == 
    <<97, 99, 116, 105, 111, 110, 95, 114, 117, 110, 95, 108, 105, 110,
      107>>

\* "email"
K_email == <<101, 109, 97, 105, 108>>

\* "name"
K_name == <<110, 97, 109, 101>>

\* "repository_link"
K_repository_link == 
    <<114, 101, 112, 111, 115, 105, 116, 111, 114, 121, 95, 108, 105,
      110, 107>>

\* "resume_link"
K_resume_link == <<114, 101, 115, 117, 109, 101, 95, 108, 105, 110, 107>>

\* "timestamp"
K_timestamp == <<116, 105, 109, 101, 115, 116, 97, 109, 112>>

\* json.dumps' own item separator, ', '
ItemSeparatorDefault == <<44, 32>>

\* separators=(',', ':')
ItemSeparator == <<44>>

KeySeparator == <<58>>

\* the dict literal of create_payload, its items in the order written
PayloadDict(name, email, resume_link, repository_link, action_run_link, timestamp) ==
    PyDict(<< <<K_action_run_link, PyStr(action_run_link)>>,
              <<K_email, PyStr(email)>>,
              <<K_name, PyStr(name)>>,
              <<K_repository_link, PyStr(repository_link)>>,
              <<K_resume_link, PyStr(resume_link)>>,
              <<K_timestamp, PyStr(timestamp)>> >>)

\* create_payload(...), called when the clock reads dt
create_payload(name, email, resume_link, repository_link, action_run_link, dt) ==
    json_dumps(PayloadDict(name, email, resume_link, repository_link,
                           action_run_link, make_timestamp(dt)),
               ItemSeparator, KeySeparator)

(***************************************************************************)
(* calculate_signature                                                     *)
(***************************************************************************)
\* "sha256="
SignaturePrefix == <<115, 104, 97, 50, 53, 54, 61>>

\* a keyed hash without HMAC: sha256(secret + payload)
calculate_signature_keyed_hash(payload, secret) ==
    SignaturePrefix
    \o hexdigest(sha256(encode_utf8(secret) \o encode_utf8(payload)))

calculate_signature(payload, secret) ==
    SignaturePrefix
    \o hexdigest(hmac_digest(encode_utf8(secret), encode_utf8(payload)))

(***************************************************************************)
(* submit_application                                                      *)
(***************************************************************************)
\* "https://b12.io/apply/submission"
SubmissionUrl == 
    <<104, 116, 116, 112, 115, 58, 47, 47, 98, 49, 50, 46, 105, 111, 47,
      97, 112, 112, 108, 121, 47, 115, 117, 98, 109, 105, 115, 115,
      105, 111, 110>>

\* "success"
K_success == <<115, 117, 99, 99, 101, 115, 115>>

\* "receipt"
K_receipt == <<114, 101, 99, 101, 105, 112, 116>>

\* the request that urlopen sends: a Request with data is a POST
make_request(payload, signature) ==
    [method |-> "POST",
     url |-> SubmissionUrl,
     data |-> encode_utf8(payload),
     content_type |-> "application/json; charset=utf-8",
     x_signature_256 |-> signature]

\* What lines 60-68 make of a response with a success status and this body:
\* [branch, value].  Every exception raised inside the with block is an
\* Exception, so the last except clause catches it and returns None.
Returned(branch, value) == [branch |-> branch, raised |-> "", value |-> value]

\* result.get('success', True): a body without the flag counts as accepted
handle_result_lenient(result) ==
    IF result.t # "dict"
    THEN Returned("exception", PyNone)
    ELSE IF ~dict_has(result, K_success) \/ Truthy(dict_get(result, K_success))
         THEN IF dict_has(result, K_receipt)
              THEN Returned("success", dict_item(result, K_receipt))
              ELSE Returned("exception", PyNone)
    ELSE Returned("failed", PyNone)

\* lines 63-68
handle_result(result) ==
    IF result.t # "dict"
    THEN Returned("exception", PyNone)               \* AttributeError: no .get
    ELSE IF Truthy(dict_get(result, K_success))
         THEN IF dict_has(result, K_receipt)
              THEN Returned("success", dict_item(result, K_receipt))
              ELSE Returned("exception", PyNone)     \* KeyError: 'receipt'
    ELSE Returned("failed", PyNone)

\* line 61
handle_text(parsed) ==
    IF parsed.ok THEN handle_result(parsed.v)
    ELSE Returned("exception", PyNone)               \* json.JSONDecodeError

\* line 60
handle_body(text) ==
    IF text.ok THEN handle_text(json_loads(text.text))
    ELSE Returned("exception", PyNone)               \* UnicodeDecodeError

handle_response(body) == handle_body(decode_utf8(body))

\* The except HTTPError clause: e.read().decode('utf-8') is evaluated inside
\* the handler, so a UnicodeDecodeError there is caught by no clause.
handle_http_error(body) ==
    IF decode_utf8(body).ok
    THEN Returned("http_error", PyNone)
    ELSE [branch |-> "http_error", raised |-> "UnicodeDecodeError", value |-> PyNone]

\* except Exception: urlopen or read failed with anything but an HTTPError
handle_exception == Returned("exception", PyNone)

(***************************************************************************)
(* main                                                                    *)
(***************************************************************************)
\* "Ioan Zicu"
AppName == <<73, 111, 97, 110, 32, 90, 105, 99, 117>>

\* "ioan.zicu94+b12@gmail.com"
AppEmail == 
    <<105, 111, 97, 110, 46, 122, 105, 99, 117, 57, 52, 43, 98, 49, 50,
      64, 103, 109, 97, 105, 108, 46, 99, 111, 109>>

\* "https://www.linkedin.com/in/%E2%98%80-ioan-z-29109b161/"
AppResumeLink == 
    <<104, 116, 116, 112, 115, 58, 47, 47, 119, 119, 119, 46, 108, 105,
      110, 107, 101, 100, 105, 110, 46, 99, 111, 109, 47, 105, 110,
      47, 37, 69, 50, 37, 57, 56, 37, 56, 48, 45, 105, 111, 97, 110,
      45, 122, 45, 50, 57, 49, 48, 57, 98, 49, 54, 49, 47>>

\* "https://github.com/ioanzicu"
AppRepositoryLink == 
    <<104, 116, 116, 112, 115, 58, 47, 47, 103, 105, 116, 104, 117, 98,
      46, 99, 111, 109, 47, 105, 111, 97, 110, 122, 105, 99, 117>>

\* "https://github.com/ioanzicu/b12-application/actions/runs/placeholder"
PlaceholderRunLink == 
    <<104, 116, 116, 112, 115, 58, 47, 47, 103, 105, 116, 104, 117, 98,
      46, 99, 111, 109, 47, 105, 111, 97, 110, 122, 105, 99, 117, 47,
      98, 49, 50, 45, 97, 112, 112, 108, 105, 99, 97, 116, 105, 111,
      110, 47, 97, 99, 116, 105, 111, 110, 115, 47, 114, 117, 110,
      115, 47, 112, 108, 97, 99, 101, 104, 111, 108, 100, 101, 114>>

\* "hello-there-from-b12"
signing_secret == 
    <<104, 101, 108, 108, 111, 45, 116, 104, 101, 114, 101, 45, 102, 114,
      111, 109, 45, 98, 49, 50>>

\* os.environ.get('GITHUB_RUN_URL') or placeholder
environ_get_or(env, default) == IF Truthy(env) THEN env ELSE PyStr(default)

\* os.environ.get('GITHUB_RUN_URL', placeholder): env is None when unset
environ_get(env, default) == IF env.t = "None" THEN PyStr(default) ELSE env

\* "receipt="
ReceiptPrefix == <<114, 101, 99, 101, 105, 112, 116, 61>>

\* print(f'receipt={receipt}', file=fh) on a file opened with 'a'
append_receipt(content, receipt) ==
    content \o ReceiptPrefix \o format_value(receipt) \o <<10>>

(***************************************************************************)
(* The environment of one run.                                             *)
(***************************************************************************)
\* how many times the clock advances before the request is sent
MaxTicks == 1

\* GITHUB_RUN_URL: unset, '', 'https://x.io/r/7 "a\b"'
RunUrlValues ==
    {PyNone, PyStr(<<>>),
     PyStr(
    <<104, 116, 116, 112, 115, 58, 47, 47, 120, 46, 105, 111, 47, 114,
      47, 55, 32, 34, 97, 92, 98, 34>>)}

\* what the file named by GITHUB_OUTPUT holds before the run: '', 'a=1\n'
InitialFiles == {<<>>, <<97, 61, 49, 10>>}

\* the clock when the run begins: 2025-01-09T07:59:59.999123Z
ClockStarts ==
    {[year |-> 2025, month |-> 1, day |-> 9, hour |-> 7, minute |-> 59,
      second |-> 59, microsecond |-> 999123]}

\* the datetime of dt's day at second-of-day s and microsecond us
AtSecond(dt, s, us) ==
    [dt EXCEPT !.hour = s \div 3600, !.minute = (s \div 60) % 60,
               !.second = s % 60, !.microsecond = us]

\* the clock one millisecond later (within the day)
Later(dt) ==
    AtSecond(dt,
             (dt.hour * 60 + dt.minute) * 60 + dt.second
                 + ((dt.microsecond + 1000) \div 1000000),
             (dt.microsecond + 1000) % 1000000)

\* bodies of responses with a success status
SuccessBodies == {
    \* '{"success":true,"receipt":"R123"}'
    <<123, 34, 115, 117, 99, 99, 101, 115, 115, 34, 58, 116, 114, 117,
      101, 44, 34, 114, 101, 99, 101, 105, 112, 116, 34, 58, 34, 82, 49,
      50, 51, 34, 125>>,
    \* '{"success":true,"receipt":""}'
    <<123, 34, 115, 117, 99, 99, 101, 115, 115, 34, 58, 116, 114, 117,
      101, 44, 34, 114, 101, 99, 101, 105, 112, 116, 34, 58, 34, 34,
      125>>,
    \* '{"success":true}'
    <<123, 34, 115, 117, 99, 99, 101, 115, 115, 34, 58, 116, 114, 117,
      101, 125>>,
    \* '{"success":false}'
    <<123, 34, 115, 117, 99, 99, 101, 115, 115, 34, 58, 102, 97, 108,
      115, 101, 125>>,
    \* '{"success":false,"receipt":"R9"}'
    <<123, 34, 115, 117, 99, 99, 101, 115, 115, 34, 58, 102, 97, 108,
      115, 101, 44, 34, 114, 101, 99, 101, 105, 112, 116, 34, 58, 34,
      82, 57, 34, 125>>,
    \* '{}'
    <<123, 125>>,
    \* '{"receipt":"R123"}'
    <<123, 34, 114, 101, 99, 101, 105, 112, 116, 34, 58, 34, 82, 49, 50,
      51, 34, 125>>,
    \* '[]'
    <<91, 93>>,
    \* '"ok"'
    <<34, 111, 107, 34>>,
    \* 'null'
    <<110, 117, 108, 108>>,
    \* 'nope'
    <<110, 111, 112, 101>>,
    \* ''
    <<>>,
    \* '\xff\xfe'
    <<255, 254>>,
    \* '{"success":true,"receipt":null}'
    <<123, 34, 115, 117, 99, 99, 101, 115, 115, 34, 58, 116, 114, 117,
      101, 44, 34, 114, 101, 99, 101, 105, 112, 116, 34, 58, 110, 117,
      108, 108, 125>>,
    \* '{"success":true,"receipt":0}'
    <<123, 34, 115, 117, 99, 99, 101, 115, 115, 34, 58, 116, 114, 117,
      101, 44, 34, 114, 101, 99, 101, 105, 112, 116, 34, 58, 48, 125>>,
    \* '{"success":true,"receipt":42}'
    <<123, 34, 115, 117, 99, 99, 101, 115, 115, 34, 58, 116, 114, 117,
      101, 44, 34, 114, 101, 99, 101, 105, 112, 116, 34, 58, 52, 50,
      125>>,
    \* '{"success":1,"receipt":"R\xc3\xa9"}'
    <<123, 34, 115, 117, 99, 99, 101, 115, 115, 34, 58, 49, 44, 34, 114,
      101, 99, 101, 105, 112, 116, 34, 58, 34, 82, 195, 169, 34, 125>>,
    \* '{"success":"no","receipt":"R1"}'
    <<123, 34, 115, 117, 99, 99, 101, 115, 115, 34, 58, 34, 110, 111,
      34, 44, 34, 114, 101, 99, 101, 105, 112, 116, 34, 58, 34, 82, 49,
      34, 125>>,
    \* ' { "success" : true , "receipt" : "a b" } '
    <<32, 123, 32, 34, 115, 117, 99, 99, 101, 115, 115, 34, 32, 58, 32,
      116, 114, 117, 101, 32, 44, 32, 34, 114, 101, 99, 101, 105, 112,
      116, 34, 32, 58, 32, 34, 97, 32, 98, 34, 32, 125, 32>>,
    \* '{"success":true,"receipt":"x\\ny"}'
    <<123, 34, 115, 117, 99, 99, 101, 115, 115, 34, 58, 116, 114, 117,
      101, 44, 34, 114, 101, 99, 101, 105, 112, 116, 34, 58, 34, 120,
      92, 110, 121, 34, 125>>,
    \* '{"success":true,"receipt":"R1"}}'
    <<123, 34, 115, 117, 99, 99, 101, 115, 115, 34, 58, 116, 114, 117,
      101, 44, 34, 114, 101, 99, 101, 105, 112, 116, 34, 58, 34, 82, 49,
      34, 125, 125>>,
    \* '{"success":true,"receipt":false}'
    <<123, 34, 115, 117, 99, 99, 101, 115, 115, 34, 58, 116, 114, 117,
      101, 44, 34, 114, 101, 99, 101, 105, 112, 116, 34, 58, 102, 97,
      108, 115, 101, 125>>,
    \* '{"success":null,"receipt":"R1"}'
    <<123, 34, 115, 117, 99, 99, 101, 115, 115, 34, 58, 110, 117, 108,
      108, 44, 34, 114, 101, 99, 101, 105, 112, 116, 34, 58, 34, 82, 49,
      34, 125>>,
    \* '{"success":false,"success":true,"receipt":"R2"}'
    <<123, 34, 115, 117, 99, 99, 101, 115, 115, 34, 58, 102, 97, 108,
      115, 101, 44, 34, 115, 117, 99, 99, 101, 115, 115, 34, 58, 116,
      114, 117, 101, 44, 34, 114, 101, 99, 101, 105, 112, 116, 34, 58,
      34, 82, 50, 34, 125>>
    }

\* bodies of responses with an error status
ErrorBodies == {
    \* ''
    <<>>,
    \* 'Internal Server Error'
    <<73, 110, 116, 101, 114, 110, 97, 108, 32, 83, 101, 114, 118, 101,
      114, 32, 69, 114, 114, 111, 114>>,
    \* '{"error":"bad signature"}'
    <<123, 34, 101, 114, 114, 111, 114, 34, 58, 34, 98, 97, 100, 32,
      115, 105, 103, 110, 97, 116, 117, 114, 101, 34, 125>>,
    \* '\xff'
    <<255>>
    }

SuccessStatuses == {200, 201}

ErrorStatuses == {404, 500}

NoResponse == [kind |-> "none", status |-> 0, body |-> <<>>]

VARIABLES
    env_run_url,   \* os.environ.get('GITHUB_RUN_URL'), None when unset
    env_output,    \* 'GITHUB_OUTPUT' in os.environ
    outfile,       \* the text of the file GITHUB_OUTPUT names
    outfile0,      \* that text when the run began (history)
    now,           \* the UTC clock
    ticks,         \* how often the clock advanced
    pc,            \* where the run is
    payload,       \* main's payload
    signature,     \* main's signature
    requests,      \* the requests sent, in order
    response,      \* what came back for the request (history)
    outcome,       \* how submit_application ended: [branch, raised, value]
    exit_code,     \* the process exit status, -1 while running
    cp_in,         \* create_payload alone: the five text arguments
    cp_call,       \* ... the keyword arguments as passed, and the clock
    cp_out,        \* ... the payload returned
    sg_calls       \* calculate_signature alone: the calls made, with results

mainVars == <<env_run_url, env_output, outfile, outfile0, now, ticks, pc,
              payload, signature, requests, response, outcome, exit_code>>

cpVars == <<cp_in, cp_call, cp_out>>

sgVars == <<sg_calls>>

vars == <<mainVars, cpVars, sgVars>>

NoOutcome == [branch |-> "", raised |-> "", value |-> PyNone]

EmptyArgs ==
    [name |-> <<>>, email |-> <<>>, resume_link |-> <<>>,
     repository_link |-> <<>>, action_run_link |-> <<>>]

CpIdle == cp_in = EmptyArgs /\ cp_call = <<>> /\ cp_out = <<>>

SgIdle == sg_calls = <<>>

(***************************************************************************)
(* One run of main.                                                        *)
(***************************************************************************)
MainInit ==
    /\ env_run_url \in RunUrlValues
    /\ env_output \in BOOLEAN
    /\ outfile \in InitialFiles
    /\ outfile0 = outfile
    /\ now \in ClockStarts
    /\ ticks = 0
    /\ pc = "start"
    /\ payload = <<>>
    /\ signature = <<>>
    /\ requests = <<>>
    /\ response = NoResponse
    /\ outcome = NoOutcome
    /\ exit_code = -1

Init == MainInit /\ CpIdle /\ SgIdle

\* time passes; the clock is read by create_payload only
Tick ==
    /\ pc \in {"start", "built", "signed"}
    /\ ticks < MaxTicks
    /\ now' = Later(now)
    /\ ticks' = ticks + 1
    /\ UNCHANGED <<env_run_url, env_output, outfile, outfile0, pc, payload,
                   signature, requests, response, outcome, exit_code>>
    /\ UNCHANGED <<cpVars, sgVars>>

\* main, lines 81-99: application_data and create_payload
BuildPayload ==
    /\ pc = "start"
    /\ payload' = create_payload(AppName, AppEmail, AppResumeLink,
                                 AppRepositoryLink,
                                 environ_get(env_run_url, PlaceholderRunLink).s,
                                 now)
    /\ pc' = "built"
    /\ UNCHANGED <<env_run_url, env_output, outfile, outfile0, now, ticks,
                   signature, requests, response, outcome, exit_code>>
    /\ UNCHANGED <<cpVars, sgVars>>

\* main, line 106
Sign ==
    /\ pc = "built"
    /\ signature' = calculate_signature(payload, signing_secret)
    /\ pc' = "signed"
    /\ UNCHANGED <<env_run_url, env_output, outfile, outfile0, now, ticks,
                   payload, requests, response, outcome, exit_code>>
    /\ UNCHANGED <<cpVars, sgVars>>

\* the request carries a payload built anew when it is sent
PostRebuilt ==
    /\ pc = "signed"
    /\ payload' = create_payload(AppName, AppEmail, AppResumeLink,
                                 AppRepositoryLink,
                                 environ_get(env_run_url, PlaceholderRunLink).s,
                                 now)
    /\ requests' = Append(requests, make_request(payload', signature))
    /\ pc' = "sent"
    /\ UNCHANGED <<env_run_url, env_output, outfile, outfile0, now, ticks,
                   signature, response, outcome, exit_code>>
    /\ UNCHANGED <<cpVars, sgVars>>

\* submit_application, lines 50-59: the request goes out, urlopen blocks
Post ==
    /\ pc = "signed"
    /\ requests' = Append(requests, make_request(payload, signature))
    /\ pc' = "sent"
    /\ UNCHANGED <<env_run_url, env_output, outfile, outfile0, now, ticks,
                   payload, signature, response, outcome, exit_code>>
    /\ UNCHANGED <<cpVars, sgVars>>

\* how submit_application leaves: a return to main, or an exception
Leave(res) ==
    /\ outcome' = res
    /\ pc' = IF res.raised = "" THEN "returned" ELSE "raised"

\* a transport failure after which the request is sent again
TransportErrorRetry ==
    /\ pc = "sent"
    /\ response' = [kind |-> "transport", status |-> 0, body |-> <<>>]
    /\ pc' = "signed"
    /\ UNCHANGED <<env_run_url, env_output, outfile, outfile0, now, ticks,
                   payload, signature, requests, outcome, exit_code>>
    /\ UNCHANGED <<cpVars, sgVars>>

\* lines 74-76: no response (URLError, timeout, connection reset, ...)
TransportError ==
    /\ pc = "sent"
    /\ response' = [kind |-> "transport", status |-> 0, body |-> <<>>]
    /\ Leave(handle_exception)
    /\ UNCHANGED <<env_run_url, env_output, outfile, outfile0, now, ticks,
                   payload, signature, requests, exit_code>>
    /\ UNCHANGED <<cpVars, sgVars>>

\* lines 70-73: urlopen raises HTTPError for a status that is no success
HttpError ==
    /\ pc = "sent"
    /\ \E status \in ErrorStatuses, body \in ErrorBodies :
          /\ response' = [kind |-> "http_error", status |-> status, body |-> body]
          /\ Leave(handle_http_error(body))
    /\ UNCHANGED <<env_run_url, env_output, outfile, outfile0, now, ticks,
                   payload, signature, requests, exit_code>>
    /\ UNCHANGED <<cpVars, sgVars>>

\* lines 59-68: a response with a success status
HttpSuccess ==
    /\ pc = "sent"
    /\ \E status \in SuccessStatuses, body \in SuccessBodies :
          /\ response' = [kind |-> "ok", status |-> status, body |-> body]
          /\ Leave(handle_response(body))
    /\ UNCHANGED <<env_run_url, env_output, outfile, outfile0, now, ticks,
                   payload, signature, requests, exit_code>>
    /\ UNCHANGED <<cpVars, sgVars>>

\* main, lines 111-122: receipt = submit_application(...); if receipt: ...
Finish ==
    /\ pc = "returned"
    /\ IF Truthy(outcome.value)
       THEN /\ outfile' = IF env_output
                          THEN append_receipt(outfile, outcome.value)
                          ELSE outfile
            /\ exit_code' = 0
       ELSE /\ outfile' = outfile
            /\ exit_code' = 1
    /\ pc' = "exit"
    /\ UNCHANGED <<env_run_url, env_output, outfile0, now, ticks, payload,
                   signature, requests, response, outcome>>
    /\ UNCHANGED <<cpVars, sgVars>>

\* lines 125-126: an exception that leaves main ends the process with status 1
Uncaught ==
    /\ pc = "raised"
    /\ exit_code' = 1
    /\ pc' = "exit"
    /\ UNCHANGED <<env_run_url, env_output, outfile, outfile0, now, ticks,
                   payload, signature, requests, response, outcome>>
    /\ UNCHANGED <<cpVars, sgVars>>

Next ==
    \/ Tick
    \/ BuildPayload
    \/ Sign
    \/ Post
    \/ TransportError
    \/ HttpError
    \/ HttpSuccess
    \/ Finish
    \/ Uncaught

Spec == Init /\ [][Next]_vars

(***************************************************************************)
(* create_payload on its own: any five texts, passed by keyword in any     *)
(* order.                                                                  *)
(***************************************************************************)
\* the characters of the five texts together
MaxInputLen == 2

\* the characters the texts are made of: " \ space newline e-acute ,
InputChars == {34, 92, 32, 10, 233, 44}

FieldNames == {"name", "email", "resume_link", "repository_link", "action_run_link"}

\* the order in which a caller writes the keyword arguments: main's order,
\* its reverse, and a mixed one
CallOrders ==
    {<<"name", "email", "resume_link", "repository_link", "action_run_link">>,
     <<"action_run_link", "repository_link", "resume_link", "email", "name">>,
     <<"resume_link", "action_run_link", "name", "repository_link", "email">>}

\* the clock when create_payload is called on its own
CallClock ==
    [year |-> 2026, month |-> 11, day |-> 4, hour |-> 7, minute |-> 5,
     second |-> 3, microsecond |-> 45678]

\* the keyword arguments of a call, as <<keyword, value>> in the order written
Kwargs(args, order) == [i \in 1..Len(order) |-> <<order[i], args[order[i]]>>]

\* the value a call binds to parameter kw
Kwarg(kwargs, kw) == kwargs[CHOOSE i \in 1..Len(kwargs) : kwargs[i][1] = kw][2]

\* create_payload(kw1=..., kw2=..., ...): parameters are bound by name
call_create_payload(kwargs, dt) ==
    create_payload(Kwarg(kwargs, "name"), Kwarg(kwargs, "email"),
                   Kwarg(kwargs, "resume_link"), Kwarg(kwargs, "repository_link"),
                   Kwarg(kwargs, "action_run_link"), dt)

MainIdle ==
    /\ env_run_url = PyNone
    /\ env_output = FALSE
    /\ outfile = <<>>
    /\ outfile0 = <<>>
    /\ now = CallClock
    /\ ticks = 0
    /\ pc = "idle"
    /\ payload = <<>>
    /\ signature = <<>>
    /\ requests = <<>>
    /\ response = NoResponse
    /\ outcome = NoOutcome
    /\ exit_code = -1

InputLen(args) ==
    Len(args.name) + Len(args.email) + Len(args.resume_link)
    + Len(args.repository_link) + Len(args.action_run_link)

InitPayload == MainIdle /\ CpIdle /\ SgIdle

\* one more character of one of the texts
CpType ==
    /\ cp_call = <<>>
    /\ InputLen(cp_in) < MaxInputLen
    /\ \E f \in FieldNames, c \in InputChars :
          cp_in' = [cp_in EXCEPT ![f] = Append(@, c)]
    /\ UNCHANGED <<cp_call, cp_out>>
    /\ UNCHANGED <<mainVars, sgVars>>

\* the call
CpCall ==
    /\ cp_call = <<>>
    /\ \E order \in CallOrders :
          /\ cp_call' = Kwargs(cp_in, order)
          /\ cp_out' = call_create_payload(Kwargs(cp_in, order), now)
    /\ UNCHANGED cp_in
    /\ UNCHANGED <<mainVars, sgVars>>

NextPayload == CpType \/ CpCall

SpecPayload == InitPayload /\ [][NextPayload]_vars

(***************************************************************************)
(* calculate_signature on its own: two calls, to compare their tags.       *)
(***************************************************************************)
\* '', 'a', '{"a":"b"}'
SignPayloads == {<<>>, <<97>>, <<123, 34, 97, 34, 58, 34, 98, 34, 125>>}

\* '', '\0', 'k', 'k\0', 'hello-there-from-b12'
SignSecrets == {<<>>, <<0>>, <<107>>, <<107, 0>>, signing_secret}

InitSign == MainIdle /\ CpIdle /\ SgIdle

\* a call, recorded with its result
SgCall(p, s) ==
    sg_calls' = Append(sg_calls,
                       [payload |-> p, secret |-> s,
                        tag |-> calculate_signature(p, s)])

\* the first call
SgFirst ==
    /\ sg_calls = <<>>
    /\ \E p \in SignPayloads, s \in SignSecrets : SgCall(p, s)
    /\ UNCHANGED <<mainVars, cpVars>>

\* the call whose tag is compared with the first one's
SgSecond ==
    /\ Len(sg_calls) = 1
    /\ \E p \in SignPayloads, s \in SignSecrets : SgCall(p, s)
    /\ UNCHANGED <<mainVars, cpVars>>

NextSign == SgFirst \/ SgSecond

SpecSign == InitSign /\ [][NextSign]_vars

(***************************************************************************)
(* Properties.                                                             *)
(***************************************************************************)
\* the JSON value a response body holds, when it is UTF-8 text
BodyJson(body) == json_loads(decode_utf8(body).text)

\* the body is a JSON object
IsJsonObject(body) ==
    /\ decode_utf8(body).ok
    /\ BodyJson(body).ok
    /\ BodyJson(body).v.t = "dict"

\* the body is a JSON object with success = true and a receipt string
AcceptsWithReceipt(body) ==
    /\ IsJsonObject(body)
    /\ dict_get(BodyJson(body).v, K_success) = PyBool(TRUE)
    /\ dict_get(BodyJson(body).v, K_receipt).t = "str"

\* the body has a false success flag, lacks the flag, or is malformed
Rejects(body) ==
    \/ ~IsJsonObject(body)
    \/ ~dict_has(BodyJson(body).v, K_success)
    \/ dict_get(BodyJson(body).v, K_success) = PyBool(FALSE)
    \/ /\ dict_get(BodyJson(body).v, K_success) = PyBool(TRUE)
       /\ ~dict_has(BodyJson(body).v, K_receipt)

\* submit_application came back to main with this value
ReturnedValue(v) ==
    /\ pc \in {"returned", "exit"}
    /\ outcome.raised = ""
    /\ outcome.value = v

\* submit_application is over, one way or the other
Left == pc \in {"returned", "raised", "exit"}

\* C1: a run ends with exit code 0 when submit_application took its success
\* branch and returned a receipt (result['receipt'], not None), with exit
\* code 1 when it returned None, and with no other exit code.
C1_ExitCodeFollowsReceipt ==
    pc = "exit" =>
        /\ exit_code \in {0, 1}
        /\ outcome.branch = "success" /\ outcome.value # PyNone => exit_code = 0
        /\ outcome.raised = "" /\ outcome.value = PyNone => exit_code = 1

\* C2: a response with a success status whose body is a JSON object with
\* success = true and a receipt string R makes submit_application return
\* exactly R, and the process exit with code 0.
C2_SuccessPath ==
    Left /\ response.kind = "ok" /\ AcceptsWithReceipt(response.body) =>
        /\ ReturnedValue(dict_item(BodyJson(response.body).v, K_receipt))
        /\ pc = "exit" => exit_code = 0

\* C3: a transport error or a non-success status, with any error body, is
\* caught inside submit_application, which returns None and lets no exception
\* reach main; the process exits with code 1.
C3_FailurePath ==
    Left /\ response.kind \in {"transport", "http_error"} =>
        /\ ReturnedValue(PyNone)
        /\ pc = "exit" => exit_code = 1

\* C4: a response with a success status whose body has a false success flag,
\* lacks the flag or is malformed makes submit_application return None, and
\* the process exit with code 1.
C4_RejectionPath ==
    Left /\ response.kind = "ok" /\ Rejects(response.body) =>
        /\ ReturnedValue(PyNone)
        /\ pc = "exit" => exit_code = 1

\* a run that ended on a body with success true and no receipt field:
\* '{"success":true}'
C4_Witness ==
    /\ pc = "exit"
    /\ response.kind = "ok"
    /\ response.body = <<123, 34, 115, 117, 99, 99, 101, 115, 115, 34, 58,
                         116, 114, 117, 101, 125>>
    /\ outcome.branch = "exception"
    /\ exit_code = 1

\* C5: no request is sent before submit_application runs, exactly one POST
\* is sent by it, none follows whatever the outcome, and a run that exits 0
\* took the success branch once.
C5_AtMostOnce ==
    /\ Len(requests) <= 1
    /\ pc \in {"start", "built", "signed"} => requests = <<>>
    /\ pc \in {"sent", "returned", "raised", "exit"} =>
           /\ Len(requests) = 1
           /\ requests[1].method = "POST"
           /\ requests[1].url = SubmissionUrl
    /\ pc = "exit" /\ exit_code = 0 => outcome.branch = "success"

\* a run that ended after a transport error, having sent one request
C5_Witness ==
    /\ pc = "exit"
    /\ response.kind = "transport"
    /\ exit_code = 1
    /\ Len(requests) = 1

InsideString(text, k) ==
    Cardinality({j \in 1..(k - 1) : text[j] = 34 /\ ~Escaped(text, 1, j)}) % 2 = 1

\* the keys of a JSON object, in the order written
KeysOf(d) == [i \in 1..Len(d.pairs) |-> d.pairs[i][1]]

\* parsed is an object of exactly the six keys, in order, with these values
IsPayloadOf(parsed, args, timestamp) ==
    /\ parsed.ok
    /\ parsed.v.t = "dict"
    /\ KeysOf(parsed.v)
         = <<K_action_run_link, K_email, K_name, K_repository_link,
             K_resume_link, K_timestamp>>
    /\ dict_item(parsed.v, K_action_run_link) = PyStr(args.action_run_link)
    /\ dict_item(parsed.v, K_email) = PyStr(args.email)
    /\ dict_item(parsed.v, K_name) = PyStr(args.name)
    /\ dict_item(parsed.v, K_repository_link) = PyStr(args.repository_link)
    /\ dict_item(parsed.v, K_resume_link) = PyStr(args.resume_link)
    /\ dict_item(parsed.v, K_timestamp) = PyStr(timestamp)

\* C7: the output of create_payload parses to an object with exactly the six
\* keys in the order action_run_link, email, name, repository_link,
\* resume_link, timestamp, whose five field values are the arguments, however
\* the keyword arguments were ordered, and no whitespace stands between its
\* tokens.
C7_CanonicalPayload ==
    cp_call # <<>> =>
        /\ IsPayloadOf(json_loads(cp_out), cp_in, make_timestamp(now))
        /\ \A k \in 1..Len(cp_out) :
              cp_out[k] \in JsonWs => InsideString(cp_out, k)

\* a call with the arguments in reverse order, for a name of a backslash and
\* a quote
C7_Witness ==
    /\ cp_call # <<>>
    /\ cp_call[1][1] = "action_run_link"
    /\ cp_in.name = <<92, 34>>
    /\ dict_get(json_loads(cp_out).v, K_name) = PyStr(<<92, 34>>)

\* ---- calculate_signature
IsLowerHex(c) == c \in 48..57 \/ c \in 97..102

\* "sha256=" and the 64 lowercase hexadecimal digits of a SHA-256 digest
WellFormedTag(tag) ==
    /\ Len(tag) = Len(SignaturePrefix) + 64
    /\ SubSeq(tag, 1, Len(SignaturePrefix)) = SignaturePrefix
    /\ \A k \in (Len(SignaturePrefix) + 1)..Len(tag) : IsLowerHex(tag[k])

\* a secret without its trailing NUL characters
StripNuls(s) ==
    SubSeq(s, 1, IF \E k \in 1..Len(s) : s[k] # 0
                 THEN CHOOSE k \in 1..Len(s) :
                          s[k] # 0 /\ \A j \in (k + 1)..Len(s) : s[j] = 0
                 ELSE 0)

\* C8 as stated: two calls give the same tag exactly when they have the same
\* payload and the same secret, and every tag is "sha256=" followed by
\* lowercase hexadecimal digits.
C8_TagChangesWithInput ==
    /\ \A i \in 1..Len(sg_calls) : WellFormedTag(sg_calls[i].tag)
    /\ \A i, j \in 1..Len(sg_calls) :
          sg_calls[i].tag = sg_calls[j].tag
          <=> /\ sg_calls[i].payload = sg_calls[j].payload
              /\ sg_calls[i].secret = sg_calls[j].secret

\* C8 amended: two calls give the same tag exactly when they have the same
\* payload and secrets that are equal up to trailing NUL characters (secrets
\* of at most 64 bytes), and every tag is "sha256=" followed by 64 lowercase
\* hexadecimal digits.
C8_TagChangesUpToKeyPadding ==
    /\ \A i \in 1..Len(sg_calls) : WellFormedTag(sg_calls[i].tag)
    /\ \A i, j \in 1..Len(sg_calls) :
          sg_calls[i].tag = sg_calls[j].tag
          <=> /\ sg_calls[i].payload = sg_calls[j].payload
              /\ StripNuls(sg_calls[i].secret) = StripNuls(sg_calls[j].secret)

\* the same payload signed with 'k' and with 'k\0': one tag
C8_Witness ==
    /\ Len(sg_calls) = 2
    /\ sg_calls[1].payload = sg_calls[2].payload
    /\ sg_calls[1].secret = <<107>>
    /\ sg_calls[2].secret = <<107, 0>>
    /\ sg_calls[1].tag = sg_calls[2].tag

\* ---- main
\* the action_run_link of a parsed payload
RunLinkOf(parsed) ==
    IF parsed.ok /\ parsed.v.t = "dict"
    THEN dict_get(parsed.v, K_action_run_link)
    ELSE PyNone

\* link is the environment's value if it has one, the placeholder if not
IsRunLink(link) ==
    /\ link = IF env_run_url = PyNone
              THEN PyStr(PlaceholderRunLink)
              ELSE env_run_url
    /\ link = PyStr(PlaceholderRunLink)
           => env_run_url \in {PyNone, PyStr(PlaceholderRunLink)}

\* C9: the action_run_link of the payload is the value of GITHUB_RUN_URL
\* whenever the environment has one, and the placeholder URL exactly when it
\* has none.
C9_RunLinkFallback ==
    pc \in {"built", "signed", "sent"} => IsRunLink(RunLinkOf(json_loads(payload)))

\* a payload built without GITHUB_RUN_URL carries the placeholder
C9_Witness ==
    /\ pc = "built"
    /\ env_run_url = PyNone
    /\ RunLinkOf(json_loads(payload)) = PyStr(PlaceholderRunLink)

\* the tag of these bytes under the embedded secret
HeaderFor(data) ==
    SignaturePrefix \o hexdigest(hmac_digest(encode_utf8(signing_secret), data))

\* C10: the payload is built first, signed next and sent last; the
\* X-Signature-256 header of the request is the tag, under the embedded
\* secret, of exactly the bytes of its body, and these are the bytes of the
\* payload that was built and signed.
C10_SignedBytesAreSentBytes ==
    /\ pc = "start" => payload = <<>> /\ signature = <<>> /\ requests = <<>>
    /\ pc = "built" => payload # <<>> /\ signature = <<>> /\ requests = <<>>
    /\ pc = "signed" => payload # <<>> /\ signature # <<>> /\ requests = <<>>
    /\ requests # <<>> =>
          /\ requests[1].data = encode_utf8(payload)
          /\ requests[1].x_signature_256 = signature
    /\ pc = "sent" =>
          requests[1].x_signature_256 = HeaderFor(requests[1].data)

\* a request sent after the clock moved on from the payload's timestamp
C10_Witness ==
    /\ pc = "sent"
    /\ dict_get(json_loads(payload).v, K_timestamp) # PyStr(make_timestamp(now))
    /\ requests[1].data = encode_utf8(payload)
    /\ requests[1].x_signature_256 = HeaderFor(requests[1].data)
====
